---- MODULE Spec2Model ----
(***************************************************************************)
(* Model of nw/gui/theme.py: the GuiTheme class (theme, palette and syntax *)
(* colour loading, theme listing) and the GuiIcons class (icon theme map,  *)
(* icon lookup chain and icon cache).                                      *)
(*                                                                         *)
(* Whatever a method reads from the disk, from the platform or from the    *)
(* application configuration object is an input of the action that models  *)
(* the method, drawn from a small set; the inputs of the last call are     *)
(* kept in a call record so that properties can speak about them.          *)
(***************************************************************************)
EXTENDS Integers, Sequences, FiniteSets, TLC

VARIABLES
    \* ---- GuiIcons ----
    qIcons,        \* self.qIcons: iconKey -> icon handle
    themeMap,      \* self.themeMap: iconKey -> path of the icon file
    iconMeta,      \* self.themeName .. self.themeLicenseUrl of GuiIcons
    iconPath,      \* self.iconPath
    iconConfFile,  \* self.confFile of GuiIcons
    nIcons,        \* iconKey -> number of QIcon objects _loadIcon built for it
    stale,         \* history: keys cached at the last updateTheme, not requested since
    iconCall,      \* the last call on GuiIcons, with its inputs and status
    iconRet        \* the handle the last getIcon / getPixmap worked with

iconVars == <<qIcons, themeMap, iconMeta, iconPath, iconConfFile, nIcons, stale,
              iconCall, iconRet>>

VARIABLES
    \* ---- GuiTheme ----
    guiTheme,      \* self.guiTheme (None until updateTheme ran)
    guiSyntax,     \* self.guiSyntax
    guiFiles,      \* self.themePath, self.syntaxFile, self.confFile, self.cssFile
    themeMeta,     \* self.themeName .. self.themeLicenseUrl
    syntaxMeta,    \* self.syntaxName .. self.syntaxLicenseUrl
    guiPalette,    \* self.guiPalette: colour role -> colour
    guiCols,       \* self.treeWCount, self.statNone, self.statUnsaved, self.statSaved
    helpText,      \* self.helpText
    synCols,       \* self.colBack .. self.colMod
    appStyleSheet, \* the style sheet set on qApp
    appPalette,    \* the palette set on qApp
    themeCall      \* the last call on GuiTheme, with its inputs and status

themeVars == <<guiTheme, guiSyntax, guiFiles, themeMeta, syntaxMeta, guiPalette, guiCols,
               helpText, synCols, appStyleSheet, appPalette, themeCall>>

VARIABLES
    \* ---- the theme lists of GuiTheme and GuiIcons ----
    themeList,     \* GuiTheme.themeList
    syntaxList,    \* GuiTheme.syntaxList
    iconThemeList, \* GuiIcons.themeList
    listCall,      \* the last list call: which one, and whether it scanned
    listRet,       \* the list the last list call returned
    listed,        \* history: for each list method, the list its last call returned
    scanDisk       \* the folder listing the calls of SpecScan read

listVars == <<themeList, syntaxList, iconThemeList, listCall, listRet, listed, scanDisk>>

VARIABLES
    \* ---- _loadColour applied to one value ----
    colValue,      \* the value of the option
    colRead        \* <<>> before the call, <<outData>> after it

colVars == <<colValue, colRead>>

vars == <<iconVars, themeVars, listVars, colVars>>

-----------------------------------------------------------------------------
(* Configuration files as configparser sees them                           *)

\* The value None of the source.
None == "None"

\* A file that open() or read_file() fails on (missing, unreadable, unparseable).
Unreadable == [ok |-> FALSE, secs |-> <<>>]

\* A file that parses: secs maps section names to (option -> value) maps.
Parsed(secs) == [ok |-> TRUE, secs |-> secs]

\* The empty option map / the empty section map.
NoEntries == <<>>

\* confParser.has_section
has_section(secs, cnfSec) == cnfSec \in DOMAIN secs

\* confParser.has_option
has_option(secs, cnfSec, cnfName) ==
    /\ cnfSec \in DOMAIN secs
    /\ cnfName \in DOMAIN secs[cnfSec]

\* _parseLine: the option's value when section and option exist, else the default
parseLine(secs, cnfSec, cnfName, cnfDefault) ==
    IF has_section(secs, cnfSec) /\ has_option(secs, cnfSec, cnfName)
    THEN secs[cnfSec][cnfName]
    ELSE cnfDefault

\* The option values of this model on which confParser.get raises
\* InterpolationSyntaxError: a "%" followed by neither "%" nor "(" (the
\* parser is made with the default BasicInterpolation).
StrayPercent == {"https://example.org/a%20b"}

\* Whether confParser.get(cnfSec, cnfName) raises.
getRaises(secs, cnfSec, cnfName) ==
    /\ has_option(secs, cnfSec, cnfName)
    /\ secs[cnfSec][cnfName] \in StrayPercent

\* The seven metadata attributes, named by their option in [Main], and the
\* order in which the "## Main" block assigns them.
MetaFields == {"name", "description", "author", "credit", "url", "license", "licenseurl"}
MetaOrder == <<"name", "description", "author", "credit", "url", "license", "licenseurl">>
MetaIndex == [f \in MetaFields |-> CHOOSE k \in 1..Len(MetaOrder) : MetaOrder[k] = f]

\* Whether the "## Main" block ends in an exception: _parseLine does not
\* catch what confParser.get raises, and neither do its callers.
mainRaises(secs) ==
    /\ has_section(secs, "Main")
    /\ \E i \in 1..Len(MetaOrder) : getRaises(secs, "Main", MetaOrder[i])

\* The metadata attributes as __init__ sets them.
EmptyMeta == [f \in MetaFields |-> ""]

\* The "## Main" block of the loaders: the attributes are re-read in order
\* when the file has a [Main] section, up to the first one whose get raises;
\* none is touched when the file has no [Main] section.
LoadMain(secs, old) ==
    IF has_section(secs, "Main")
    THEN LET bad == {j \in 1..Len(MetaOrder) : getRaises(secs, "Main", MetaOrder[j])}
         IN  [f \in MetaFields |->
                IF \E j \in bad : j <= MetaIndex[f]
                THEN old[f]
                ELSE parseLine(secs, "Main", f, "")]
    ELSE old

-----------------------------------------------------------------------------
(* Strings and colour values                                               *)

\* A string is the sequence of its characters. The characters of colour
\* values: digits, the minus sign, the blank, the comma, and a letter.
Digits == <<"0", "1", "2", "3", "4", "5", "6", "7", "8", "9">>

IsDigit(c) == \E i \in 1..10 : Digits[i] = c

DigitVal(c) == (CHOOSE i \in 1..10 : Digits[i] = c) - 1

\* str.split(","): the pieces between the commas, one more than there are commas.
RECURSIVE split(_)
split(str) ==
    IF \A i \in 1..Len(str) : str[i] # ","
    THEN <<str>>
    ELSE LET i == CHOOSE j \in 1..Len(str) :
                      str[j] = "," /\ \A m \in 1..(j - 1) : str[m] # ","
         IN  <<SubSeq(str, 1, i - 1)>> \o split(SubSeq(str, i + 1, Len(str)))

\* str.strip() for blanks, as int() does before it reads the number.
RECURSIVE strip(_)
strip(str) ==
    IF str = <<>> THEN str
    ELSE IF Head(str) = " " THEN strip(Tail(str))
    ELSE IF str[Len(str)] = " " THEN strip(SubSeq(str, 1, Len(str) - 1))
    ELSE str

\* The value of a string of digits.
RECURSIVE digitsVal(_)
digitsVal(ds) ==
    IF ds = <<>> THEN 0
    ELSE 10 * digitsVal(SubSeq(ds, 1, Len(ds) - 1)) + DigitVal(ds[Len(ds)])

\* Whether int(str) returns: blanks around an optional minus sign and one or
\* more digits.
isInt(str) ==
    LET t  == strip(str)
        ds == IF t # <<>> /\ Head(t) = "-" THEN Tail(t) ELSE t
    IN  /\ ds # <<>>
        /\ \A i \in 1..Len(ds) : IsDigit(ds[i])

\* int(str), for a string int() accepts.
int(str) ==
    LET t == strip(str)
    IN  IF Head(t) = "-" THEN 0 - digitsVal(Tail(t)) ELSE digitsVal(t)

\* [0,0,0]
Black == <<0, 0, 0>>

\* The try block shared by _loadColour and _setPalette: int() of the first
\* three pieces. It raises when a piece is missing or is no integer.
tryRaises(inData) ==
    \/ Len(inData) < 3
    \/ \E i \in 1..3 : ~isInt(inData[i])

\* What the try block builds when it does not raise.
tryResult(inData) == <<int(inData[1]), int(inData[2]), int(inData[3])>>

\* _loadColour on the value of an option that exists.
loadColourValue(value) ==
    LET inData == split(value)
    IN  IF tryRaises(inData) THEN Black ELSE tryResult(inData)

\* The colour values of the configuration files of this model: well-formed
\* ones, one with blanks, one with channels outside 0..255, one with two
\* pieces, one with four pieces, one with a piece that is no integer.
V_LIGHT  == <<"2", "3", "9", ",", "2", "3", "9", ",", "2", "3", "9">>
V_DARK   == <<"5", "4", ",", "5", "4", ",", "5", "4">>
V_WHITE  == <<"2", "5", "5", ",", "2", "5", "5", ",", "2", "5", "5">>
V_GREY   == <<"1", "2", "0", ",", "1", "2", "0", ",", "1", "2", "0">>
V_GREEN  == <<"4", "0", ",", "1", "2", "0", ",", "0">>
V_SPACED == <<"1", "2", "0", ",", " ", "1", "2", "0", ",", " ", "4", "0">>
V_RANGE  == <<"3", "0", "0", ",", "-", "5", ",", "0">>
V_TWO    == <<"1", "2", ",", "3", "4">>
V_FOUR   == <<"1", ",", "2", ",", "3", ",", "4">>
V_LETTER == <<"1", ",", "x", ",", "3">>

ColourValues ==
    {V_LIGHT, V_DARK, V_WHITE, V_GREY, V_GREEN, V_SPACED, V_RANGE, V_TWO, V_FOUR, V_LETTER}

\* The colour values of the configuration files, read once: whether the try
\* block raises on the value, and what _loadColour returns for it.
colourRead ==
    [value \in ColourValues |->
        [raises |-> tryRaises(split(value)), rgb |-> loadColourValue(value)]]

\* _loadColour
loadColour(secs, cnfSec, cnfName) ==
    IF has_option(secs, cnfSec, cnfName)
    THEN colourRead[secs[cnfSec][cnfName]].rgb
    ELSE Black

-----------------------------------------------------------------------------
(* GuiTheme                                                                *)

\* The option of [Palette] that sets each colour role (loadTheme's
\* _setPalette calls).
PaletteKeys ==
    [Window          |-> "window",
     WindowText      |-> "windowtext",
     Base            |-> "base",
     AlternateBase   |-> "alternatebase",
     Text            |-> "text",
     ToolTipBase     |-> "tooltipbase",
     ToolTipText     |-> "tooltiptext",
     Button          |-> "button",
     ButtonText      |-> "buttontext",
     BrightText      |-> "brighttext",
     Highlight       |-> "highlight",
     HighlightedText |-> "highlightedtext",
     Link            |-> "link",
     LinkVisited     |-> "linkvisited"]

\* The option of [GUI] that sets each status colour.
GuiKeys ==
    [treeWCount  |-> "treewordcount",
     statNone    |-> "statusnone",
     statUnsaved |-> "statusunsaved",
     statSaved   |-> "statussaved"]

\* The option of [Syntax] that sets each syntax colour.
SyntaxKeys ==
    [colBack   |-> "background",
     colText   |-> "text",
     colLink   |-> "link",
     colHead   |-> "headertext",
     colHeadH  |-> "headertag",
     colEmph   |-> "emphasis",
     colDialN  |-> "straightquotes",
     colDialD  |-> "doublequotes",
     colDialS  |-> "singlequotes",
     colComm   |-> "hidden",
     colKey    |-> "keyword",
     colVal    |-> "value",
     colSpell  |-> "spellcheckline",
     colTagErr |-> "tagerror",
     colRepTag |-> "replacetag",
     colMod    |-> "modifier"]

\* A colour of a palette: QColor(r, g, b) is a valid colour when every
\* channel is in 0..255 and the invalid colour otherwise; a role no theme
\* has set has the platform's colour.
QColor(rgb) ==
    IF \A i \in 1..3 : rgb[i] \in 0..255
    THEN [spec |-> "Rgb", rgb |-> rgb]
    ELSE [spec |-> "Invalid", rgb |-> Black]

\* QPalette(): the platform's palette (a light one: dark text on a light window).
PlatformPalette ==
    [role \in DOMAIN PaletteKeys |->
        [spec |-> "Platform",
         rgb  |-> IF role \in {"WindowText", "Text", "ButtonText", "ToolTipText"}
                  THEN Black ELSE <<239, 239, 239>>]]

\* _setPalette for one role: the role's colour after the call.
setPalette(old, secs, cnfSec, cnfName) ==
    IF has_option(secs, cnfSec, cnfName)
    THEN LET read == colourRead[secs[cnfSec][cnfName]]
         IN  IF read.raises THEN old ELSE QColor(read.rgb)
    ELSE old

\* The "## Palette" block of loadTheme.
loadPalette(secs, old) ==
    IF has_section(secs, "Palette")
    THEN [role \in DOMAIN PaletteKeys |->
            setPalette(old[role], secs, "Palette", PaletteKeys[role])]
    ELSE old

\* The "## GUI" block of loadTheme.
loadGui(secs, old) ==
    IF has_section(secs, "GUI")
    THEN [c \in DOMAIN GuiKeys |-> loadColour(secs, "GUI", GuiKeys[c])]
    ELSE old

\* The "## Syntax" block of loadSyntax.
loadSyntaxCols(secs, old) ==
    IF has_section(secs, "Syntax")
    THEN [c \in DOMAIN SyntaxKeys |-> loadColour(secs, "Syntax", SyntaxKeys[c])]
    ELSE old

\* mainConf.guiTheme and mainConf.guiSyntax: the ids the configuration can name.
ThemeIds == {"default", "default_dark"}
SyntaxIds == {"default_light"}

\* style.qss: absent (path.isfile is false), a file that cannot be read, a file.
NoCss == [isfile |-> FALSE, ok |-> TRUE, data |-> ""]
CssFiles ==
    { NoCss,
      [isfile |-> TRUE, ok |-> FALSE, data |-> ""],
      [isfile |-> TRUE, ok |-> TRUE, data |-> "QWidget {}"] }

\* The contents theme.conf can have.
ThemeConfs ==
    { Unreadable,
      Parsed([Main    |-> [name |-> "Default Theme", author |-> "A"],
              Palette |-> [window |-> V_WHITE, windowtext |-> V_DARK,
                           base |-> V_GREY],
              GUI     |-> [treewordcount |-> V_DARK, statusnone |-> V_GREY,
                           statusunsaved |-> V_SPACED, statussaved |-> V_GREEN]]),
      Parsed([Main    |-> [name |-> "Dark Theme"],
              Palette |-> [window |-> V_DARK, windowtext |-> V_LIGHT,
                           base |-> V_LETTER, text |-> V_RANGE],
              GUI     |-> [treewordcount |-> V_FOUR, statusnone |-> V_RANGE,
                           statusunsaved |-> V_TWO, statussaved |-> V_LETTER]]),
      Parsed([Main    |-> [name |-> "Linked Theme",
                           url |-> "https://example.org/a%20b",
                           license |-> "CC"],
              Palette |-> [window |-> V_GREY]]) }

\* The contents a syntax file can have.
SyntaxConfs ==
    { Unreadable,
      Parsed([Main   |-> [name |-> "Default Light"],
              Syntax |-> [background |-> V_WHITE, text |-> V_DARK,
                          link |-> V_GREEN, emphasis |-> V_SPACED]]),
      Parsed([Main   |-> [name |-> "Odd", author |-> "A"],
              Syntax |-> [background |-> V_DARK, text |-> V_RANGE,
                          keyword |-> V_FOUR, value |-> V_TWO]]),
      Parsed([Main   |-> [description |-> "No colours"]]),
      Parsed([Main   |-> [name |-> "Linked",
                          licenseurl |-> "https://example.org/a%20b"]]) }

\* The inputs a call did not read.
NoThemeDisk == [css |-> NoCss, conf |-> Unreadable]

\* What loadTheme reads: style.qss and, unless reading that failed,
\* theme.conf of the theme folder.
ThemeDisks ==
    { [css |-> c, conf |-> Unreadable] : c \in {c \in CssFiles : c.isfile /\ ~c.ok} }
    \cup { [css |-> c, conf |-> f] : c \in {c \in CssFiles : ~c.isfile \/ c.ok},
                                     f \in ThemeConfs }

\* Whether loadTheme returns False: the style sheet is read first and
\* theme.conf second; either failure returns before anything is assigned.
loadThemeFails(d) == (d.css.isfile /\ ~d.css.ok) \/ ~d.conf.ok

\* loadTheme: whether it returned True, whether it ended in an exception,
\* and what it leaves in the attributes it loads. The style sheet and the
\* palette are applied last.
loadTheme(d) ==
    IF loadThemeFails(d)
    THEN [ok |-> FALSE, raised |-> FALSE, themeMeta |-> themeMeta,
          guiPalette |-> guiPalette, guiCols |-> guiCols,
          appStyleSheet |-> appStyleSheet, appPalette |-> appPalette]
    ELSE IF mainRaises(d.conf.secs)
    THEN [ok |-> FALSE, raised |-> TRUE,
          themeMeta |-> LoadMain(d.conf.secs, themeMeta),
          guiPalette |-> guiPalette, guiCols |-> guiCols,
          appStyleSheet |-> appStyleSheet, appPalette |-> appPalette]
    ELSE LET palette == loadPalette(d.conf.secs, guiPalette)
         IN  [ok |-> TRUE, raised |-> FALSE,
              themeMeta |-> LoadMain(d.conf.secs, themeMeta),
              guiPalette |-> palette,
              guiCols |-> loadGui(d.conf.secs, guiCols),
              appStyleSheet |-> IF d.css.isfile THEN d.css.data ELSE "",
              appPalette |-> palette]

\* loadSyntax: its status and what it leaves in the attributes it loads.
loadSyntax(conf) ==
    IF ~conf.ok
    THEN [ok |-> FALSE, raised |-> FALSE, syntaxMeta |-> syntaxMeta, synCols |-> synCols]
    ELSE IF mainRaises(conf.secs)
    THEN [ok |-> FALSE, raised |-> TRUE,
          syntaxMeta |-> LoadMain(conf.secs, syntaxMeta), synCols |-> synCols]
    ELSE [ok |-> TRUE, raised |-> FALSE,
          syntaxMeta |-> LoadMain(conf.secs, syntaxMeta),
          synCols |-> loadSyntaxCols(conf.secs, synCols)]

\* loadSyntax when updateTheme does not get to it.
syntaxNotRun ==
    [ok |-> FALSE, raised |-> FALSE, syntaxMeta |-> syntaxMeta, synCols |-> synCols]

\* QColor.lightnessF, as the 16-bit value Qt keeps: the HSL lightness
\* (max + min) / 2 of the channels, scaled from 0..255 to 0..65535 and
\* rounded; 0 for the invalid colour.
Max3(rgb) == CHOOSE x \in {rgb[1], rgb[2], rgb[3]} : \A i \in 1..3 : rgb[i] <= x
Min3(rgb) == CHOOSE x \in {rgb[1], rgb[2], rgb[3]} : \A i \in 1..3 : rgb[i] >= x
lightness(colour) ==
    IF colour.spec = "Invalid" THEN 0
    ELSE ((Max3(colour.rgb) + Min3(colour.rgb)) * 257 + 1) \div 2

\* The "dependant colours" block of updateTheme: the grey level
\* int(255*helpLCol), with the lightness values as 16-bit fractions and the
\* products taken exactly; int() drops the fraction.
helpLevel(backLCol, textLCol) ==
    LET helpLCol100 ==
            IF backLCol > textLCol
            THEN 100 * textLCol + 65 * (backLCol - textLCol)
            ELSE 100 * backLCol + 65 * (textLCol - backLCol)
    IN  (255 * helpLCol100) \div (100 * 65535)

helpTextOf(palette) ==
    LET level == helpLevel(lightness(palette["Window"]), lightness(palette["WindowText"]))
    IN  <<level, level, level>>

\* The paths updateTheme joins from the ids (below mainConf.themeRoot).
filesOf(theme, syntax) ==
    [themePath  |-> <<"gui", theme>>,
     syntaxFile |-> <<"syntax", syntax, ".conf">>,
     confFile   |-> <<"gui", theme, "theme.conf">>,
     cssFile    |-> <<"gui", theme, "style.qss">>]

\* The paths as __init__ sets them.
NoFiles ==
    [themePath |-> <<None>>, syntaxFile |-> <<None>>, confFile |-> <<None>>,
     cssFile |-> <<None>>]

\* GuiTheme.loadTheme, called on its own.
LoadTheme ==
    \E d \in ThemeDisks :
        \E r \in {loadTheme(d)} :
            /\ guiTheme # None
            /\ themeMeta' = r.themeMeta
            /\ guiPalette' = r.guiPalette
            /\ guiCols' = r.guiCols
            /\ appStyleSheet' = r.appStyleSheet
            /\ appPalette' = r.appPalette
            /\ themeCall' = [op |-> "loadTheme", ok |-> r.ok, okSyntax |-> TRUE,
                             raised |-> r.raised, theme |-> None, syntax |-> None,
                             in |-> d, syn |-> Unreadable]
            /\ UNCHANGED <<guiTheme, guiSyntax, guiFiles, syntaxMeta, helpText, synCols>>
            /\ UNCHANGED <<iconVars, listVars, colVars>>

\* GuiTheme.loadSyntax, called on its own.
LoadSyntax ==
    \E conf \in SyntaxConfs :
        \E r \in {loadSyntax(conf)} :
            /\ guiTheme # None
            /\ syntaxMeta' = r.syntaxMeta
            /\ synCols' = r.synCols
            /\ themeCall' = [op |-> "loadSyntax", ok |-> r.ok, okSyntax |-> r.ok,
                             raised |-> r.raised, theme |-> None, syntax |-> None,
                             in |-> NoThemeDisk, syn |-> conf]
            /\ UNCHANGED <<guiTheme, guiSyntax, guiFiles, themeMeta, guiPalette,
                           guiCols, helpText, appStyleSheet, appPalette>>
            /\ UNCHANGED <<iconVars, listVars, colVars>>

\* GuiTheme.updateTheme: takes the ids from the configuration, joins the
\* paths, runs loadTheme and loadSyntax, and derives the help text colour
\* from the application's palette. An exception in a loader ends the call
\* there. The first call is the one of __init__: when it ends in an
\* exception there is no object.
UpdateTheme ==
    \E d \in ThemeDisks :
      \E t \in {loadTheme(d)} :
        \E conf \in SyntaxConfs :
          \E x \in {IF t.raised THEN syntaxNotRun ELSE loadSyntax(conf)} :
            \E theme \in ThemeIds, syntax \in SyntaxIds :
              LET raised == t.raised \/ x.raised
              IN  /\ t.raised => conf = Unreadable
                  /\ guiTheme = None => ~raised
                  /\ guiTheme' = theme
                  /\ guiSyntax' = syntax
                  /\ guiFiles' = filesOf(theme, syntax)
                  /\ themeMeta' = t.themeMeta
                  /\ guiPalette' = t.guiPalette
                  /\ guiCols' = t.guiCols
                  /\ appStyleSheet' = t.appStyleSheet
                  /\ appPalette' = t.appPalette
                  /\ syntaxMeta' = x.syntaxMeta
                  /\ synCols' = x.synCols
                  /\ helpText' = IF raised THEN helpText ELSE helpTextOf(t.appPalette)
                  /\ themeCall' = [op |-> "updateTheme", ok |-> t.ok,
                                   okSyntax |-> x.ok, raised |-> raised,
                                   theme |-> theme, syntax |-> syntax,
                                   in |-> d, syn |-> conf]
                  /\ UNCHANGED <<iconVars, listVars, colVars>>

ThemeInit ==
    /\ guiTheme = None
    /\ guiSyntax = None
    /\ guiFiles = NoFiles
    /\ themeMeta = EmptyMeta
    /\ syntaxMeta = EmptyMeta
    /\ guiPalette = PlatformPalette
    /\ guiCols = [treeWCount  |-> <<0, 0, 0>>,
                  statNone    |-> <<120, 120, 120>>,
                  statUnsaved |-> <<120, 120, 40>>,
                  statSaved   |-> <<40, 120, 0>>]
    /\ helpText = <<0, 0, 0>>
    /\ synCols = [c \in DOMAIN SyntaxKeys |->
                    IF c = "colBack" THEN <<255, 255, 255>> ELSE <<0, 0, 0>>]
    /\ appStyleSheet = ""
    /\ appPalette = PlatformPalette
    /\ themeCall = [op |-> "init", ok |-> TRUE, okSyntax |-> TRUE,
                    raised |-> FALSE, theme |-> None, syntax |-> None,
                    in |-> NoThemeDisk, syn |-> Unreadable]

-----------------------------------------------------------------------------
(* GuiIcons                                                                *)

\* ICON_MAP, with one key for each way the lookup chain reads the fallback
\* hints: a QStyle icon (the icon theme name is not looked at), no QStyle
\* icon and an icon theme name, neither.
ICON_MAP ==
    [cls_none |-> <<"SP_DriveHDIcon", "drive-harddisk">>,
     add      |-> <<None, "list-add">>,
     proj_nwx |-> <<None, None>>]

\* The keys callers ask for: the catalog and a key that is not in it.
UnknownKey == "no_such_icon"
RequestKeys == DOMAIN ICON_MAP \cup {UnknownKey}

\* self.fbackName
fbackName == "fallback"

\* The empty icon, QIcon().
NullIcon == <<"null">>

\* What getIcon reads beside the object's state: mainConf.guiDark, whether the
\* platform icon theme has the key's name, whether <key>-dark.svg and
\* <key>.svg are files of the fallback folder.
IconEnvs ==
    [guiDark : BOOLEAN, hasThemeIcon : BOOLEAN, darkFile : BOOLEAN, lightFile : BOOLEAN]

\* Variant of _loadIcon: the QStyle icon is tried before the theme map.
loadIconStyleFirst(iconKey, tMap, env) ==
    IF iconKey \notin DOMAIN ICON_MAP THEN NullIcon
    ELSE IF ICON_MAP[iconKey][1] # None THEN <<"standardIcon", ICON_MAP[iconKey][1]>>
    ELSE IF iconKey \in DOMAIN tMap THEN <<"file">> \o tMap[iconKey]
    ELSE IF ICON_MAP[iconKey][2] # None /\ env.hasThemeIcon
        THEN <<"fromTheme", ICON_MAP[iconKey][2]>>
    ELSE IF env.guiDark /\ env.darkFile THEN <<"file", fbackName, iconKey, "-dark.svg">>
    ELSE IF env.lightFile THEN <<"file", fbackName, iconKey, ".svg">>
    ELSE NullIcon

\* _loadIcon: what the QIcon it returns is built from.
loadIcon(iconKey, tMap, env) ==
    IF iconKey \notin DOMAIN ICON_MAP THEN NullIcon
    ELSE IF iconKey \in DOMAIN tMap THEN <<"file">> \o tMap[iconKey]
    ELSE IF ICON_MAP[iconKey][1] # None THEN <<"standardIcon", ICON_MAP[iconKey][1]>>
    ELSE IF ICON_MAP[iconKey][2] # None /\ env.hasThemeIcon
        THEN <<"fromTheme", ICON_MAP[iconKey][2]>>
    ELSE IF env.guiDark /\ env.darkFile THEN <<"file", fbackName, iconKey, "-dark.svg">>
    ELSE IF env.lightFile THEN <<"file", fbackName, iconKey, ".svg">>
    ELSE NullIcon

\* The cache after getIcon stored qIcon under iconKey (self.qIcons[iconKey] = qIcon).
StoreIcon(cache, iconKey, qIcon) ==
    [k \in DOMAIN cache \cup {iconKey} |-> IF k = iconKey THEN qIcon ELSE cache[k]]

\* Bound on the QIcon objects built for one key in one run.
MaxLoads == 2

\* An icon handle: the QIcon object that the n-th _loadIcon call for a key built.
\* Two handles are the same object exactly when they are equal.
Handle(iconKey, src, n) == [key |-> iconKey, src |-> src, id |-> n]

\* The inputs getIcon did not read on a cache hit.
NoEnv == [guiDark |-> FALSE, hasThemeIcon |-> FALSE, darkFile |-> FALSE, lightFile |-> FALSE]

\* Variant of cacheHit: an empty icon in the cache does not count as cached.
cacheHitNonEmpty(cache, iconKey) ==
    iconKey \in DOMAIN cache /\ cache[iconKey].src # NullIcon

\* Whether getIcon serves iconKey from the cache (if iconKey in self.qIcons).
cacheHit(cache, iconKey) == iconKey \in DOMAIN cache

\* Bound on the number of keys the cache holds in one run.
MaxCached == 2

\* getIcon, shared by GetIcon and GetPixmap: a cached key returns the cached
\* handle; otherwise _loadIcon builds a new QIcon object, which is stored
\* under the key and returned. With keep, the call record keeps what the
\* lookup read.
getIcon(op, iconKey, keep) ==
    IF cacheHit(qIcons, iconKey)
    THEN /\ iconRet' = qIcons[iconKey]
         /\ iconCall' = [op |-> op, key |-> iconKey, hit |-> TRUE, ok |-> TRUE,
                         in |-> NoEnv]
         /\ stale' = stale \ {iconKey}
         /\ UNCHANGED <<qIcons, nIcons>>
    ELSE \E env \in IconEnvs :
         /\ nIcons[iconKey] < MaxLoads
         /\ Cardinality(DOMAIN qIcons) < MaxCached
         /\ LET qIcon == Handle(iconKey, loadIcon(iconKey, themeMap, env),
                                nIcons[iconKey] + 1)
            IN  /\ qIcons' = StoreIcon(qIcons, iconKey, qIcon)
                /\ iconRet' = qIcon
         /\ nIcons' = [nIcons EXCEPT ![iconKey] = @ + 1]
         /\ iconCall' = [op |-> op, key |-> iconKey, hit |-> FALSE, ok |-> TRUE,
                         in |-> IF keep THEN env ELSE NoEnv]
         /\ stale' = stale \ {iconKey}

GetIcon ==
    \E iconKey \in RequestKeys :
        /\ getIcon("getIcon", iconKey, FALSE)
        /\ UNCHANGED <<themeMap, iconMeta, iconPath, iconConfFile>>
        /\ UNCHANGED <<themeVars, listVars, colVars>>

\* getPixmap: getIcon, then the icon's pixmap (a view of the same handle).
GetPixmap ==
    \E iconKey \in RequestKeys :
        /\ getIcon("getPixmap", iconKey, FALSE)
        /\ UNCHANGED <<themeMap, iconMeta, iconPath, iconConfFile>>
        /\ UNCHANGED <<themeVars, listVars, colVars>>

\* getIcon, with what the lookup read kept in the call record.
LookupIcon ==
    \E iconKey \in RequestKeys :
        /\ iconCall.op # "init"
        /\ getIcon("getIcon", iconKey, TRUE)
        /\ UNCHANGED <<themeMap, iconMeta, iconPath, iconConfFile>>
        /\ UNCHANGED <<themeVars, listVars, colVars>>

\* mainConf.guiIcons: the icon themes the configuration can name.
IconThemes == {"typicons_dark", "typicons_light"}

\* The contents icons.conf can have.
IconConfs ==
    { Unreadable,
      Parsed([Main |-> [name |-> "Typicons", author |-> "A"],
              Map  |-> [add |-> "typ_plus.svg", cls_none |-> "typ_book.svg",
                        no_such_icon |-> "typ_book.svg"]]),
      Parsed([Map  |-> [cls_none |-> "typ_book.svg"]]) }

\* The icon files a theme folder can hold.
IconFiles == {"typ_plus.svg", "typ_book.svg"}

\* What updateTheme reads: mainConf.guiIcons, whether the theme folder is a
\* directory, its icons.conf, and the icon files in it. What a call did not
\* read is recorded as absent.
IconDisk(guiIcons, isdir, conf, files) ==
    [guiIcons |-> guiIcons, isdir |-> isdir, conf |-> conf, files |-> files]

IconDisks ==
    { IconDisk(t, FALSE, Unreadable, {}) : t \in IconThemes }
    \cup { IconDisk(t, TRUE, Unreadable, {}) : t \in IconThemes }
    \cup { IconDisk(t, TRUE, c, f) : t \in IconThemes, c \in IconConfs \ {Unreadable},
                                     f \in SUBSET IconFiles }

\* self.confName of GuiIcons
iconConfName == "icons.conf"

\* Variant of loadMap: the key is not looked up in ICON_MAP.
loadMapAnyKey(secs, checkPath, files) ==
    IF has_section(secs, "Map")
    THEN [iconName \in {n \in DOMAIN secs["Map"] : secs["Map"][n] \in files}
            |-> <<checkPath, secs["Map"][iconName]>>]
    ELSE NoEntries

\* The "Map" block of updateTheme: the entries whose key is in ICON_MAP and
\* whose file is in the theme folder, each with the joined path.
loadMap(secs, checkPath, files) ==
    IF has_section(secs, "Map")
    THEN [iconName \in {n \in DOMAIN secs["Map"] :
                            n \in DOMAIN ICON_MAP /\ secs["Map"][n] \in files}
            |-> <<checkPath, secs["Map"][iconName]>>]
    ELSE NoEntries

\* The theme map updateTheme starts from (self.themeMap = {}).
resetMap(tMap) == NoEntries

\* The cache as updateTheme leaves it: the method does not touch self.qIcons.
cacheAfterTheme(cache) == cache

\* GuiIcons.updateTheme
UpdateIconTheme ==
    \E d \in IconDisks :
        /\ iconCall' = [op |-> "updateTheme", key |-> None, hit |-> FALSE,
                        ok |-> d.isdir /\ d.conf.ok, in |-> d]
        /\ qIcons' = cacheAfterTheme(qIcons)
        /\ stale' = DOMAIN qIcons'
        /\ UNCHANGED <<nIcons, iconRet>>
        /\ UNCHANGED <<themeVars, listVars, colVars>>
        /\ IF ~d.isdir
           THEN /\ themeMap' = resetMap(themeMap)
                /\ UNCHANGED <<iconMeta, iconPath, iconConfFile>>
           ELSE /\ iconPath' = d.guiIcons
                /\ iconConfFile' = <<d.guiIcons, iconConfName>>
                /\ IF ~d.conf.ok
                   THEN /\ themeMap' = resetMap(themeMap)
                        /\ UNCHANGED iconMeta
                   ELSE /\ iconMeta' = LoadMain(d.conf.secs, iconMeta)
                        /\ themeMap' = loadMap(d.conf.secs, d.guiIcons, d.files)

IconInit ==
    /\ qIcons = NoEntries
    /\ themeMap = NoEntries
    /\ iconMeta = EmptyMeta
    /\ iconPath = None
    /\ iconConfFile = <<None>>
    /\ nIcons = [k \in RequestKeys |-> 0]
    /\ stale = {}
    /\ iconCall = [op |-> "init", key |-> None, hit |-> FALSE, ok |-> TRUE, in |-> NoEnv]
    /\ iconRet = Handle(None, NullIcon, 0)

\* The last call was getIcon or getPixmap.
IsLookup(call) == call.op \in {"getIcon", "getPixmap"}

-----------------------------------------------------------------------------
(* listThemes, listSyntax and the listThemes of GuiIcons                   *)

\* The display names of the files of this model, in ascending order of
\* Python's string comparison.
DisplayNames == <<"Alpha", "Beta">>

\* The place of a display name in that order: the key sorted() compares.
nameKey(name) == CHOOSE i \in 1..Len(DisplayNames) : DisplayNames[i] = name

\* The contents the config file of a listed folder or syntax file can have.
ListConfs ==
    { Unreadable,
      Parsed([Main |-> [name |-> "Alpha"]]),
      Parsed([Main |-> [name |-> "Beta", author |-> "A"]]),
      Parsed([Main |-> [author |-> "A"]]) }

\* confParser.read_file on a parser that has read other files before: the
\* sections and options of the file are added to those the parser holds, an
\* option of the file replacing the parser's option of the same name.
read_file(parser, secs) ==
    [sec \in DOMAIN parser \cup DOMAIN secs |->
        IF sec \notin DOMAIN secs THEN parser[sec]
        ELSE IF sec \notin DOMAIN parser THEN secs[sec]
        ELSE [opt \in DOMAIN parser[sec] \cup DOMAIN secs[sec] |->
                IF opt \in DOMAIN secs[sec] THEN secs[sec][opt] ELSE parser[sec][opt]]]

\* The parser a scan reads the config file of an entry with: listThemes and
\* listSyntax make one ConfigParser before the loop and read every file with it.
scanParser(parser, secs) == read_file(parser, secs)

\* The name a scan finds for an entry: [Main] name of the parser, or "".
scanName(parser) ==
    IF has_section(parser, "Main") /\ has_option(parser, "Main", "name")
    THEN parser["Main"]["name"]
    ELSE ""

\* sorted(list, key=lambda x: x[1]): ascending by display name, entries with
\* the same name in their order in list.
RECURSIVE sorted(_)
sorted(list) ==
    IF list = <<>> THEN <<>>
    ELSE LET x    == list[Len(list)]
             rest == sorted(SubSeq(list, 1, Len(list) - 1))
             n    == Cardinality({i \in 1..Len(rest) : nameKey(rest[i][2]) <= nameKey(x[2])})
         IN  SubSeq(rest, 1, n) \o <<x>> \o SubSeq(rest, n + 1, Len(rest))

\* The loop of GuiTheme.listThemes over the entries of the themes folder:
\* an entry whose theme.conf cannot be read is skipped, the others are read
\* and appended under the name found.
RECURSIVE scanThemes(_, _, _)
scanThemes(entries, parser, list) ==
    IF entries = <<>> THEN list
    ELSE LET e == Head(entries)
         IN  IF ~e.conf.ok
             THEN scanThemes(Tail(entries), parser, list)
             ELSE LET p == scanParser(parser, e.conf.secs)
                      themeName == scanName(p)
                  IN  scanThemes(Tail(entries), p,
                                 IF themeName # "" THEN Append(list, <<e.dir, themeName>>)
                                 ELSE list)

\* The loop of GuiIcons.listThemes: as scanThemes, and entries that are no
\* directory or are the fallback folder are passed over.
RECURSIVE scanIconThemes(_, _, _)
scanIconThemes(entries, parser, list) ==
    IF entries = <<>> THEN list
    ELSE LET e == Head(entries)
         IN  IF ~e.isdir \/ e.dir = fbackName \/ ~e.conf.ok
             THEN scanIconThemes(Tail(entries), parser, list)
             ELSE LET p == scanParser(parser, e.conf.secs)
                      themeName == scanName(p)
                  IN  scanIconThemes(Tail(entries), p,
                                     IF themeName # "" THEN Append(list, <<e.dir, themeName>>)
                                     ELSE list)

\* The loop of listSyntax over the entries of the syntax folder: entries
\* that are no file are passed over; a file that cannot be read ends the
\* scan (failed), with the entries appended so far left in the list. An
\* entry is listed under its file name less the last five characters, when
\* the file name has more than five.
RECURSIVE scanSyntax(_, _, _)
scanSyntax(entries, parser, list) ==
    IF entries = <<>> THEN [failed |-> FALSE, list |-> list]
    ELSE LET e == Head(entries)
         IN  IF e.isdir
             THEN scanSyntax(Tail(entries), parser, list)
             ELSE IF ~e.conf.ok
             THEN [failed |-> TRUE, list |-> list]
             ELSE LET p == scanParser(parser, e.conf.secs)
                      syntaxName == scanName(p)
                  IN  scanSyntax(Tail(entries), p,
                                 IF Len(e.dir) > 5 /\ syntaxName # ""
                                 THEN Append(list, <<SubSeq(e.dir, 1, Len(e.dir) - 5),
                                                     syntaxName>>)
                                 ELSE list)

\* Whether a list method returns its list without scanning (if self.themeList:).
isListed(list) == list # <<>>

\* A folder entry: its name, whether it is a directory, its config file (for
\* a syntax file: the file itself). What is no directory has no config file
\* in it.
Entry(dir, isdir, conf) == [dir |-> dir, isdir |-> isdir, conf |-> conf]

EntriesOf(names) ==
    { Entry(n, TRUE, c) : n \in names, c \in ListConfs }
    \cup { Entry(n, FALSE, Unreadable) : n \in names }

\* The listings of a folder with the given names: any of the names, each
\* once, in any order.
ListingsOf(names) ==
    LET E == EntriesOf(names)
    IN  UNION { { l \in [1..n -> E] : \A i, j \in 1..n : i # j => l[i].dir # l[j].dir } :
                n \in 0..Cardinality(names) }

\* The folders of the themes folder and of the icons folder while they change
\* between calls.
ThemeDirs == {"default", "default_dark"}
IconDirs  == {"typicons_dark", fbackName}

\* The syntax folder: two files named <x>.conf, and for the syntax files an
\* entry is a file when it is no directory.
SyntaxFiles == { <<"a", ".", "c", "o", "n", "f">>,
                 <<"b", ".", "c", "o", "n", "f">> }

SyntaxEntries ==
    { Entry(n, FALSE, c) : n \in SyntaxFiles, c \in ListConfs }
    \cup { Entry(n, TRUE, Unreadable) : n \in SyntaxFiles }

SyntaxListings ==
    UNION { { l \in [1..n -> SyntaxEntries] :
                \A i, j \in 1..n : i # j => l[i].dir # l[j].dir } :
            n \in 0..Cardinality(SyntaxFiles) }

\* The call record of a list method.
ListCall(op, scanned, failed) ==
    [op |-> op, scanned |-> scanned, failed |-> failed, raised |-> FALSE]

\* A list method whose folder does not exist: it has no list yet, so it calls
\* listdir, which raises FileNotFoundError; the call is outside the method's
\* try block, so the exception leaves the method. Nothing is assigned and
\* nothing is returned.
listdirRaises(op, list) ==
    /\ ~isListed(list)
    /\ listCall' = [op |-> op, scanned |-> TRUE, failed |-> TRUE, raised |-> TRUE]
    /\ UNCHANGED <<themeList, syntaxList, iconThemeList, listRet, listed, scanDisk>>
    /\ UNCHANGED <<iconVars, themeVars, colVars>>

\* GuiTheme.listThemes, reading the given listing of the themes folder.
listThemes(entries) ==
    /\ IF isListed(themeList)
       THEN /\ listRet' = themeList
            /\ listCall' = ListCall("listThemes", FALSE, FALSE)
            /\ UNCHANGED themeList
       ELSE /\ themeList' = sorted(scanThemes(entries, NoEntries, themeList))
            /\ listRet' = themeList'
            /\ listCall' = ListCall("listThemes", TRUE, FALSE)
    /\ listed' = [listed EXCEPT !.listThemes = <<listRet'>>]
    /\ UNCHANGED <<syntaxList, iconThemeList>>
    /\ UNCHANGED <<iconVars, themeVars, colVars>>

\* GuiIcons.listThemes, reading the given listing of the icons folder.
listIconThemes(entries) ==
    /\ IF isListed(iconThemeList)
       THEN /\ listRet' = iconThemeList
            /\ listCall' = ListCall("listIconThemes", FALSE, FALSE)
            /\ UNCHANGED iconThemeList
       ELSE /\ iconThemeList' = sorted(scanIconThemes(entries, NoEntries, iconThemeList))
            /\ listRet' = iconThemeList'
            /\ listCall' = ListCall("listIconThemes", TRUE, FALSE)
    /\ listed' = [listed EXCEPT !.listIconThemes = <<listRet'>>]
    /\ UNCHANGED <<themeList, syntaxList>>
    /\ UNCHANGED <<iconVars, themeVars, colVars>>

\* GuiTheme.listSyntax, reading the given listing of the syntax folder.
listSyntax(entries) ==
    /\ IF isListed(syntaxList)
       THEN /\ listRet' = syntaxList
            /\ listCall' = ListCall("listSyntax", FALSE, FALSE)
            /\ UNCHANGED syntaxList
       ELSE LET scan == scanSyntax(entries, NoEntries, syntaxList)
            IN  IF scan.failed
                THEN /\ syntaxList' = scan.list
                     /\ listRet' = <<>>
                     /\ listCall' = ListCall("listSyntax", TRUE, TRUE)
                ELSE /\ syntaxList' = sorted(scan.list)
                     /\ listRet' = syntaxList'
                     /\ listCall' = ListCall("listSyntax", TRUE, FALSE)
    /\ listed' = [listed EXCEPT !.listSyntax = <<listRet'>>]
    /\ UNCHANGED <<themeList, iconThemeList>>
    /\ UNCHANGED <<iconVars, themeVars, colVars>>

\* The list methods while the folders change between the calls.
ListThemes ==
    \/ \E entries \in ListingsOf(ThemeDirs) :
          listThemes(entries) /\ UNCHANGED scanDisk
    \/ listdirRaises("listThemes", themeList)

ListIconThemes ==
    \/ \E entries \in ListingsOf(IconDirs) :
          listIconThemes(entries) /\ UNCHANGED scanDisk
    \/ listdirRaises("listIconThemes", iconThemeList)

ListSyntax ==
    \/ \E entries \in SyntaxListings :
          listSyntax(entries) /\ UNCHANGED scanDisk
    \/ listdirRaises("listSyntax", syntaxList)

\* The folders a scan of SpecScan reads: three folders, one named as the
\* fallback folder of the icons is.
ScanDirs == {"default", "default_dark", fbackName}

\* The list methods of a themes folder and an icons folder that both hold
\* the listing scanDisk.
ScanThemes == listThemes(scanDisk) /\ UNCHANGED scanDisk

ScanIconThemes == listIconThemes(scanDisk) /\ UNCHANGED scanDisk

ListInit ==
    /\ themeList = <<>>
    /\ syntaxList = <<>>
    /\ iconThemeList = <<>>
    /\ listCall = ListCall("init", FALSE, FALSE)
    /\ listRet = <<>>
    /\ listed = [listThemes |-> <<>>, listSyntax |-> <<>>, listIconThemes |-> <<>>]

-----------------------------------------------------------------------------
(* _loadColour on one option value                                         *)

\* The characters of the values tried, and the bound on their length.
ValueChars == {"1", "-", ",", "x"}
MaxValueLen == 7

ColInit ==
    /\ colValue \in UNION { [1..n -> ValueChars] : n \in 0..MaxValueLen }
    /\ colRead = <<>>

\* _loadColour reads the option.
ReadColour ==
    /\ colRead = <<>>
    /\ colRead' = <<loadColourValue(colValue)>>
    /\ UNCHANGED colValue
    /\ UNCHANGED <<iconVars, themeVars, listVars>>

\* The variables of a specification that does not use the colour value.
ColIdle == colValue = <<>> /\ colRead = <<>>

\* The state after GuiTheme and GuiIcons are constructed, nothing listed yet.
Init ==
    /\ IconInit
    /\ ThemeInit
    /\ ListInit
    /\ scanDisk = <<>>
    /\ ColIdle

\* A fresh object and a folder listing for its listThemes to scan.
ScanInit ==
    /\ IconInit
    /\ ThemeInit
    /\ ListInit
    /\ scanDisk \in ListingsOf(ScanDirs)
    /\ ColIdle

\* The objects as constructed and an option value for _loadColour to read.
ColourInit ==
    /\ IconInit
    /\ ThemeInit
    /\ ListInit
    /\ scanDisk = <<>>
    /\ ColInit

-----------------------------------------------------------------------------
(* Specifications                                                          *)

IconNext == GetIcon \/ GetPixmap \/ UpdateIconTheme

\* GuiIcons under any sequence of getIcon, getPixmap and updateTheme calls.
SpecIcons ==
    Init /\ [][IconNext]_vars

\* The icon theme is loaded once, as GuiTheme.__init__ does.
LoadIconTheme ==
    /\ iconCall.op = "init"
    /\ UpdateIconTheme

LookupNext == LoadIconTheme \/ LookupIcon

\* GuiIcons as GuiTheme.__init__ sets it up (one updateTheme call), then any
\* sequence of getIcon calls, each recorded with what it read.
SpecLookup ==
    Init /\ [][LookupNext]_vars

ThemeNext == UpdateTheme \/ LoadTheme \/ LoadSyntax

\* GuiTheme under any sequence of updateTheme, loadTheme and loadSyntax calls;
\* the first call is the updateTheme of __init__.
SpecTheme ==
    Init /\ [][ThemeNext]_vars

ListNext == ListThemes \/ ListSyntax \/ ListIconThemes

\* The list methods under any sequence of calls, the folders changing freely
\* between the calls.
SpecList ==
    Init /\ [][ListNext]_vars

ScanNext == ScanThemes \/ ScanIconThemes

\* The two listThemes methods on a fresh object, for every listing of a folder.
SpecScan ==
    ScanInit /\ [][ScanNext]_vars

ColourNext == ReadColour

\* _loadColour applied to every value up to the length bound.
SpecColour == ColourInit /\ [][ColourNext]_vars

-----------------------------------------------------------------------------
(* Properties of GuiIcons                                                  *)

\* C1: after updateTheme, the first getIcon of a key that was cached before
\* the call runs the lookup chain again and does not return the handle that
\* was cached before the call.
C1_NoStaleIconAfterUpdateTheme ==
    [][\A k \in stale :
          (IsLookup(iconCall') /\ iconCall'.key = k /\ k \in DOMAIN qIcons)
              => (~iconCall'.hit /\ iconRet' # qIcons[k])]_vars

\* C2: every key of the icon cache is a key of ICON_MAP, and a lookup of a
\* key outside ICON_MAP returns the empty icon.
C2_CacheKeysInCatalog ==
    /\ DOMAIN qIcons \subseteq DOMAIN ICON_MAP
    /\ (IsLookup(iconCall) /\ iconCall.key \notin DOMAIN ICON_MAP)
          => iconRet.src = NullIcon

\* C3: a catalog key that was looked up since the last updateTheme is served
\* again from the cache: the call returns the handle the earlier call
\* returned (the same object), builds no icon and leaves the cache alone;
\* and what a lookup returns is what the cache holds for the key.
C3_CachedHandleIsStable ==
    /\ [](IsLookup(iconCall) => iconRet = qIcons[iconCall.key])
    /\ [][\A k \in (DOMAIN qIcons \cap DOMAIN ICON_MAP) \ stale :
             (IsLookup(iconCall') /\ iconCall'.key = k)
                 => /\ iconRet' = qIcons[k]
                    /\ iconCall'.hit
                    /\ qIcons' = qIcons
                    /\ nIcons' = nIcons]_vars

\* C3 witness: a second getIcon of a catalog key was served from the cache.
C3_Witness ==
    /\ iconCall.op = "getIcon"
    /\ iconCall.hit
    /\ iconCall.key \in DOMAIN ICON_MAP
    /\ iconRet = qIcons[iconCall.key]
    /\ iconRet.id = 1

\* C4: on a cache miss for a catalog key, the icon comes from the first
\* match of: the theme map, the declared QStyle icon, the declared icon theme
\* name if the platform has it, <key>-dark.svg in dark mode, <key>.svg, and
\* else it is the empty icon.
C4_LookupOrder ==
    (IsLookup(iconCall) /\ ~iconCall.hit /\ iconCall.key \in DOMAIN ICON_MAP) =>
        LET k      == iconCall.key
            e      == iconCall.in
            src    == iconRet.src
            mapped == k \in DOMAIN themeMap
            std    == ICON_MAP[k][1] # None
            sys    == ICON_MAP[k][2] # None /\ e.hasThemeIcon
            dark   == e.guiDark /\ e.darkFile
        IN  /\ mapped => src = <<"file">> \o themeMap[k]
            /\ (~mapped /\ std) => src = <<"standardIcon", ICON_MAP[k][1]>>
            /\ (~mapped /\ ~std /\ sys) => src = <<"fromTheme", ICON_MAP[k][2]>>
            /\ (~mapped /\ ~std /\ ~sys /\ dark)
                  => src = <<"file", fbackName, k, "-dark.svg">>
            /\ (~mapped /\ ~std /\ ~sys /\ ~dark /\ e.lightFile)
                  => src = <<"file", fbackName, k, ".svg">>
            /\ (~mapped /\ ~std /\ ~sys /\ ~dark /\ ~e.lightFile) => src = NullIcon

\* C4 witness: in dark mode, with no theme map entry, no platform icon and no
\* <key>-dark.svg, the lookup returned <key>.svg.
C4_Witness ==
    /\ iconCall.op = "getIcon"
    /\ ~iconCall.hit
    /\ iconCall.key = "add"
    /\ iconCall.key \notin DOMAIN themeMap
    /\ iconCall.in.guiDark /\ ~iconCall.in.darkFile /\ iconCall.in.lightFile
    /\ ~iconCall.in.hasThemeIcon
    /\ iconRet.src = <<"file", fbackName, "add", ".svg">>

\* C5: an updateTheme that reports failure leaves the theme map, the
\* metadata, iconPath and confFile as they were before the call.
C5_FailedUpdateKeepsTheme ==
    [][(iconCall'.op = "updateTheme" /\ ~iconCall'.ok)
          => /\ themeMap' = themeMap
             /\ iconMeta' = iconMeta
             /\ iconPath' = iconPath
             /\ iconConfFile' = iconConfFile]_vars

\* C11: after an updateTheme that reports success, the theme map has exactly
\* the [Map] entries of the icons.conf it read whose key is in ICON_MAP and
\* whose file was in the theme folder, each with its path in that folder; and
\* in every state the keys of the theme map are keys of ICON_MAP.
C11_ThemeMapIsTheValidEntries ==
    /\ DOMAIN themeMap \subseteq DOMAIN ICON_MAP
    /\ (iconCall.op = "updateTheme" /\ iconCall.ok) =>
          LET d  == iconCall.in
              map == IF "Map" \in DOMAIN d.conf.secs THEN d.conf.secs["Map"] ELSE NoEntries
          IN  /\ \A n \in DOMAIN map :
                    n \in DOMAIN themeMap <=> (n \in DOMAIN ICON_MAP /\ map[n] \in d.files)
              /\ \A n \in DOMAIN themeMap :
                    n \in DOMAIN map /\ themeMap[n] = <<d.guiIcons, map[n]>>

\* C11 witness: a successful updateTheme whose [Map] had an unknown key and
\* an entry whose file was missing, and which still loaded the third entry.
C11_Witness ==
    /\ iconCall.op = "updateTheme" /\ iconCall.ok
    /\ "Map" \in DOMAIN iconCall.in.conf.secs
    /\ UnknownKey \in DOMAIN iconCall.in.conf.secs["Map"]
    /\ "add" \in DOMAIN iconCall.in.conf.secs["Map"]
    /\ iconCall.in.conf.secs["Map"]["add"] \notin iconCall.in.files
    /\ DOMAIN themeMap = {"cls_none"}

-----------------------------------------------------------------------------
(* Properties of GuiTheme                                                  *)

\* C6: a loadTheme that does not return success (it returns failure, or it
\* ends in an exception) has changed none of the theme metadata, the palette,
\* the status colours, the application's style sheet and palette; a
\* loadSyntax that does not return success has changed none of the syntax
\* metadata and the syntax colours (also when updateTheme runs them): no
\* call ends with part of a file applied.
C6_FailedLoadChangesNothing ==
    [][/\ (themeCall'.op \in {"loadTheme", "updateTheme"} /\ ~themeCall'.ok)
            => /\ themeMeta' = themeMeta
               /\ guiPalette' = guiPalette
               /\ guiCols' = guiCols
               /\ appStyleSheet' = appStyleSheet
               /\ appPalette' = appPalette
       /\ (themeCall'.op \in {"loadSyntax", "updateTheme"} /\ ~themeCall'.okSyntax)
            => /\ syntaxMeta' = syntaxMeta
               /\ synCols' = synCols]_vars

\* Whether a stored colour is a list of three integers in 0..255.
IsRgb(col) == Len(col) = 3 /\ \A i \in 1..3 : col[i] \in 0..255

\* C8: every stored colour (the status colours, the syntax colours, the help
\* text colour) is a list of three integers, each in 0..255.
C8_StoredColoursInRange ==
    /\ \A c \in DOMAIN guiCols : IsRgb(guiCols[c])
    /\ \A c \in DOMAIN synCols : IsRgb(synCols[c])
    /\ IsRgb(helpText)

\* Whether a colour value is malformed: it has not exactly three
\* comma-separated pieces, or a piece is no integer.
Malformed(value) ==
    LET inData == split(value)
    IN  Len(inData) # 3 \/ \E i \in 1..Len(inData) : ~isInt(inData[i])

\* C7: _loadColour returns [0,0,0] for every malformed colour value.
C7_MalformedIsBlack ==
    (colRead # <<>> /\ Malformed(colValue)) => colRead[1] = Black

-----------------------------------------------------------------------------
(* Properties of the theme lists                                           *)

\* The name the own config file of a folder entry gives in [Main], or "".
OwnName(e) == IF e.conf.ok THEN parseLine(e.conf.secs, "Main", "name", "") ELSE ""

\* Whether a list is in ascending order of display name.
IsSorted(list) ==
    \A i, j \in 1..Len(list) : i < j => nameKey(list[i][2]) <= nameKey(list[j][2])

\* Whether a list is exactly the named ones of the candidates, each once
\* under its own name, in ascending order of display name.
ListsExactly(list, candidates) ==
    LET named == {e \in candidates : OwnName(e) # ""}
    IN  /\ {list[i] : i \in 1..Len(list)} = {<<e.dir, OwnName(e)>> : e \in named}
        /\ Len(list) = Cardinality(named)
        /\ IsSorted(list)

\* C9: a scan by listThemes, of the GUI themes or of the icon themes, returns
\* one entry for each candidate folder whose own config file names it and
\* none for the others, sorted by display name; so a folder of three themes
\* of which one has no name gives two entries.
C9_ListIsTheNamedFolders ==
    LET all == {scanDisk[i] : i \in 1..Len(scanDisk)}
    IN  /\ (listCall.op = "listThemes" /\ listCall.scanned)
              => ListsExactly(listRet, all)
        /\ (listCall.op = "listIconThemes" /\ listCall.scanned)
              => ListsExactly(listRet, {e \in all : e.isdir /\ e.dir # fbackName})

\* C10: once a list method has returned a list, every later call of it
\* returns that list and does not scan, the empty list included.
C10_ListIsKept ==
    [][\A m \in DOMAIN listed :
          (listed[m] # <<>> /\ listCall'.op = m)
              => (listRet' = listed[m][1] /\ ~listCall'.scanned)]_vars

\* C13: after updateTheme the help text colour has three equal channels in
\* 0..255, and the channel is 255 * (Lb + 0.65*(Lt - Lb)) for Lb <= Lt, and
\* 255 * (Lt + 0.65*(Lb - Lt)) otherwise, rounded to the nearest integer,
\* with Lb and Lt the lightness of the application's window and window text
\* colours (as 16-bit fractions; the comparison is made on whole numbers,
\* with 0.65 as 13/20).
C13_HelpTextIsRounded ==
    (themeCall.op = "updateTheme" /\ ~themeCall.raised) =>
        LET Lb == lightness(appPalette["Window"])
            Lt == lightness(appPalette["WindowText"])
            h20 == IF Lb <= Lt THEN 20 * Lb + 13 * (Lt - Lb)
                   ELSE 20 * Lt + 13 * (Lb - Lt)
            g == helpText[1]
        IN  /\ Len(helpText) = 3
            /\ helpText[2] = g /\ helpText[3] = g
            /\ g \in 0..255
            /\ 2 * g * (20 * 65535) <= 2 * 255 * h20 + 20 * 65535
            /\ 2 * 255 * h20 + 20 * 65535 < 2 * (g + 1) * (20 * 65535)

\* Whether a theme.conf sets a palette role: [Palette] has the role's option
\* with a value of three integers.
SetsRole(secs, role) ==
    /\ has_option(secs, "Palette", PaletteKeys[role])
    /\ ~tryRaises(split(secs["Palette"][PaletteKeys[role]]))

\* C14: after a successful loadTheme, every palette role that the theme.conf
\* just loaded does not set has the platform's colour, in self.guiPalette
\* and in the palette of the application.
C14_UnsetRolesArePlatform ==
    (themeCall.op \in {"loadTheme", "updateTheme"} /\ themeCall.ok) =>
        \A role \in DOMAIN PaletteKeys :
            ~SetsRole(themeCall.in.conf.secs, role)
                => /\ guiPalette[role] = PlatformPalette[role]
                   /\ appPalette[role] = PlatformPalette[role]

\* C15: after a successful loadSyntax, every syntax colour that the file just
\* loaded does not give is black: an option absent from [Syntax], and every
\* option when the file has no [Syntax] section.
C15_UnspecifiedSyntaxIsBlack ==
    (themeCall.op \in {"loadSyntax", "updateTheme"} /\ themeCall.okSyntax) =>
        \A c \in DOMAIN SyntaxKeys :
            ~has_option(themeCall.syn.secs, "Syntax", SyntaxKeys[c])
                => synCols[c] = Black

\* C16: a listSyntax call whose scan ended on an unreadable file returns the
\* empty list and leaves no list cached, so that the next call scans again;
\* and every non-empty list a listSyntax call returns is sorted by display
\* name, as a complete scan leaves it.
C16_AbortedScanCachesNothing ==
    [][listCall'.op = "listSyntax" /\ ~listCall'.raised =>
          /\ listCall'.failed => listRet' = <<>> /\ syntaxList' = <<>>
          /\ listRet' # <<>> => listRet' = sorted(listRet')]_vars

\* C17: every updateTheme call returns True (it does not end in an exception),
\* leaves the configured theme id, syntax id and the paths joined from them
\* as current, and leaves the help text colour computed from the
\* application's palette; when its loadTheme did not succeed, the theme
\* metadata, the palette and the status colours are those of before the
\* call.
C17_UpdateThemeAlwaysTrue ==
    [][themeCall'.op = "updateTheme" =>
          /\ ~themeCall'.raised
          /\ guiTheme' = themeCall'.theme
          /\ guiSyntax' = themeCall'.syntax
          /\ guiFiles' = filesOf(themeCall'.theme, themeCall'.syntax)
          /\ helpText' = helpTextOf(appPalette')
          /\ ~themeCall'.ok => /\ themeMeta' = themeMeta
                               /\ guiPalette' = guiPalette
                               /\ guiCols' = guiCols]_vars

\* C12: no call of listThemes, listSyntax or the listThemes of GuiIcons ends
\* in an exception, whatever the folders hold and also when a folder is
\* missing.
C12_NoListCallRaises == ~listCall.raised

====
